---- MODULE Spec2Model ----
(***************************************************************************)
(* Dispatch & Tracking Engine of ZeroMailPanthom.                          *)
(*                                                                         *)
(* These state machines share this module:                                 *)
(*   SpecStore     the tracking store (email_tracking.py) driven by its    *)
(*                 callers: the dispatch loop, the tracking endpoint and   *)
(*                 every construction of an EmailTracker;                  *)
(*   SpecEndpoint  the handlers of tracking_server.py over that store,     *)
(*                 with store failures;                                    *)
(*   SpecSend      one call of EmailSender._send_via_smtp/_send_via_api,   *)
(*                 one step per iteration of the retry loop;               *)
(*   SpecSendEmail one call of EmailSender.send_email with its tracking;   *)
(*   SpecRender    the text of one message through send_email:             *)
(*                 placeholders, link rewriting, beacon;                   *)
(*   SpecStartup   the start-up of the identity routing in                 *)
(*                 EmailCampaign.__init__;                                 *)
(*   Spec          one campaign run, EmailCampaign.send_campaign, with     *)
(*                 the retry loop nested in it;                            *)
(*   SpecRun       the same run with transmissions that never return and   *)
(*                 the fairness of a single thread;                        *)
(*   SpecConcurrent, SpecCampaigns  the store under the writers of the     *)
(*                 dispatch loop and of the tracking endpoint;             *)
(*   SpecDevice    the device class of a user agent.                       *)
(*                                                                         *)
(* uuid.uuid4() is modelled as a source of fresh values: the n-th call     *)
(* returns n.  Timestamps are integers (datetime.now() is `now`).          *)
(***************************************************************************)
EXTENDS Integers, Sequences, FiniteSets, TLC

VARIABLES
    \* ---- tracking store (the SQLite file) ----
    emails,       \* table emails: set of rows
    opens,        \* table opens
    clicks,       \* table clicks
    bounces,      \* table bounces
    uuidCount,    \* number of uuid4() values drawn so far
    now,          \* datetime.now()
    purged,       \* rows the DELETE FROM emails of the last cleanup removed
    \* ---- dispatch ----
    cfg,          \* the parsed configuration and the inputs of the run
    use_tor,      \* EmailConfig.use_tor (mutated by the transport)
    pc,           \* position of the run / of the Send in progress
    tIdx,         \* index of the template being processed
    bStart,       \* i of `for i in range(0, len(recipients), batch_size)`
    rIdx,         \* index in `recipients` of the recipient being processed
    tplOversized, \* the loaded template has an attachment over max size
    retry_count,  \* retry_count of the Send in progress
    sendLog,      \* events of the Send in progress
    runLog,       \* events of the run
    sendFailed,   \* some Send of the run raised after its last retry
    emailDelay,   \* delay_between_emails was waited after the last send_email
    anySent,      \* some message of the run was transmitted
    \* ---- tracking endpoint (tracking_server.py) ----
    request,      \* the request being answered
    trackerResult,\* how the call into the EmailTracker ended
    response,     \* what the handler returned
    \* ---- one call of send_email with tracking (email_sender.py) ----
    sendCtx,      \* the tracker's presence, tracking_url and the template's kind
    msg,          \* the message under composition
    handed,       \* the message was handed to the transport
    \* ---- start-up of the identity routing (main.py, tor_handler.py) ----
    torCfg,       \* the `tor` section: enabled, retry_attempts
    socket_socket,\* what socket.socket is bound to
    senderTor,    \* EmailSender's routing: "off", "established", "failed"
    handler,      \* the TorHandler: its enabled flag, state and retry_count
    probes,       \* the identity probes answered so far
    startupError, \* the exception that left EmailCampaign.__init__
    \* ---- the text of one message through send_email (email_sender.py) ----
    template,     \* the EmailTemplate: subject, content, is_html
    recipient,    \* the recipient record: one row of the CSV file
    rendered,     \* subject and content as send_email has them so far
    stage,        \* how far send_email has got with the text
    \* ---- the derivation of the device class (email_tracking.py) ----
    user_agent,   \* the User-Agent header of a request, or its absence
    device_type   \* what _detect_device_type returned for it

storeVars == <<emails, opens, clicks, bounces, uuidCount, now, purged>>
dispatchVars == <<cfg, use_tor, pc, tIdx, bStart, rIdx, tplOversized,
                  retry_count, sendLog, runLog, sendFailed, emailDelay, anySent>>
endpointVars == <<request, trackerResult, response>>
\* What the store's callers and the dispatch loop never touch.
composeVars == <<sendCtx, msg, handed>>
startupVars == <<torCfg, socket_socket, senderTor, handler, probes, startupError>>
renderVars == <<template, recipient, rendered, stage>>
deviceVars == <<user_agent, device_type>>
sideVars == <<endpointVars, composeVars, startupVars, renderVars, deviceVars>>
vars == <<emails, opens, clicks, bounces, uuidCount, now, purged,
          cfg, use_tor, pc, tIdx, bStart, rIdx, tplOversized,
          retry_count, sendLog, runLog, sendFailed, emailDelay, anySent,
          request, trackerResult, response, sendCtx, msg, handed,
          torCfg, socket_socket, senderTor, handler, probes, startupError,
          template, recipient, rendered, stage, user_agent, device_type>>

(***************************************************************************)
(* Bounds of the model.                                                    *)
(***************************************************************************)
MaxUuid == 4
MaxClock == 1
MaxDays == 1
MaxTemplates == 2
MaxRecipients == 3
MaxBatch == 2
MaxRetries == 2
MaxLen == 2

Campaigns == {"A", "B"}
Recipients == {"x@example.com"}
Urls == {"http://landing"}
BounceInputs == {<<"hard", "no_such_user">>, <<"soft", "mailbox_full">>}
\* request.remote_addr as the endpoint passes it on; "" stands for the falsy
\* values None and ''.
Addrs == {"203.0.113.7"}
RemoteAddrs == {""} \cup Addrs

\* SQL NULL in an integer column of the model.
NULL == -1
\* An identifier that uuid4() never returned (any string a client may send).
Unknown == 0

(***************************************************************************)
(* Tracking store: email_tracking.py                                       *)
(***************************************************************************)
uuid4 == uuidCount + 1

\* EmailTracker._init_database: DROP TABLE IF EXISTS on all four tables,
\* then CREATE TABLE: every construction leaves four empty tables.
InitDatabaseTables == [emails |-> {}, opens |-> {}, clicks |-> {}, bounces |-> {}]

InitDatabase ==
    /\ emails' = InitDatabaseTables.emails
    /\ opens' = InitDatabaseTables.opens
    /\ clicks' = InitDatabaseTables.clicks
    /\ bounces' = InitDatabaseTables.bounces
    /\ UNCHANGED <<uuidCount, now, purged>>

\* EmailTracker.track_email_send: INSERT INTO emails, status 'sent'.
SentRow(email_id, campaign_id, recipient_email) ==
    [email_id |-> email_id, campaign_id |-> campaign_id,
     recipient_email |-> recipient_email, sent_time |-> now,
     status |-> "sent", tracking_pixel_id |-> NULL, bounce_info |-> "NULL"]

track_email_send(recipient_email, campaign_id) ==
    /\ uuidCount < MaxUuid
    /\ uuidCount' = uuid4
    /\ emails' = emails \cup {SentRow(uuid4, campaign_id, recipient_email)}
    /\ UNCHANGED <<opens, clicks, bounces, now, purged>>

\* The value the previous uuid4() call returned, used again.
StalePixelId == uuidCount

\* The value create_tracking_pixel binds to the message.
NewPixelId == uuid4

\* EmailTracker.create_tracking_pixel: UPDATE emails SET tracking_pixel_id
\* WHERE email_id = ?; the column is UNIQUE, so the statement fails (and the
\* transaction rolls back) when another row already holds the value.
create_tracking_pixel(email_id) ==
    /\ uuidCount < MaxUuid
    /\ uuidCount' = uuid4
    /\ LET pixel_id == NewPixelId
           clash == \E e \in emails :
                       e.email_id # email_id /\ e.tracking_pixel_id = pixel_id
       IN  emails' = IF clash THEN emails
                     ELSE {IF e.email_id = email_id
                           THEN [e EXCEPT !.tracking_pixel_id = pixel_id]
                           ELSE e : e \in emails}
    /\ UNCHANGED <<opens, clicks, bounces, now, purged>>

\* The SELECT without its WHERE clause: every message.
AllOwners(pixel_id) == {e.email_id : e \in emails}

\* SELECT email_id FROM emails WHERE tracking_pixel_id = ?
PixelOwners(pixel_id) == {e.email_id : e \in {r \in emails : r.tracking_pixel_id = pixel_id}}

\* hashlib.sha256(ip_address.encode()).hexdigest() of the addresses of the
\* model.
Sha256Hex ==
    [a \in Addrs |->
        "fec52565aa0cf18f57d7cf5b3ac728503b8992d2d6f7d46da1d1201090902b02"]

\* The address stored as it came.
RawIp(ip_address) == ip_address

\* EmailTracker._hash_ip
hash_ip(ip_address) == IF ip_address = "" THEN "NULL" ELSE Sha256Hex[ip_address]

\* `self._hash_ip(ip_address) if ip_address else None`: the ip_address column.
IpColumn(ip_address) == IF ip_address # "" THEN hash_ip(ip_address) ELSE "NULL"

\* EmailTracker.track_open: resolves the token, inserts one opens row when a
\* message owns it, does nothing otherwise.
track_open(pixel_id, ip_address) ==
    /\ IF PixelOwners(pixel_id) # {}
       THEN /\ uuidCount < MaxUuid
            /\ uuidCount' = uuid4
            /\ opens' = opens \cup
                 {[open_id |-> uuid4,
                   email_id |-> CHOOSE id \in PixelOwners(pixel_id) : TRUE,
                   ip_address |-> IpColumn(ip_address)]}
       ELSE UNCHANGED <<uuidCount, opens>>
    /\ UNCHANGED <<emails, clicks, bounces, now, purged>>

\* EmailTracker.track_click: INSERT INTO clicks, whatever email_id is.
track_click(email_id, link_url, ip_address) ==
    /\ uuidCount < MaxUuid
    /\ uuidCount' = uuid4
    /\ clicks' = clicks \cup
         {[click_id |-> uuid4, email_id |-> email_id, link_url |-> link_url,
           ip_address |-> IpColumn(ip_address)]}
    /\ UNCHANGED <<emails, opens, bounces, now, purged>>

\* The UPDATE without `status = ?`.
MarkBouncedInfoOnly(rows, email_id, bounce_reason) ==
    {IF e.email_id = email_id
     THEN [e EXCEPT !.bounce_info = bounce_reason]
     ELSE e : e \in rows}

\* UPDATE emails SET status = 'bounced', bounce_info = ? WHERE email_id = ?
MarkBounced(rows, email_id, bounce_reason) ==
    {IF e.email_id = email_id
     THEN [e EXCEPT !.status = "bounced", !.bounce_info = bounce_reason]
     ELSE e : e \in rows}

\* EmailTracker.track_bounce: INSERT INTO bounces, then the UPDATE, in one
\* transaction.
track_bounce(email_id, bounce_type, bounce_reason) ==
    /\ uuidCount < MaxUuid
    /\ uuidCount' = uuid4
    /\ bounces' = bounces \cup
         {[bounce_id |-> uuid4, email_id |-> email_id,
           bounce_type |-> bounce_type, bounce_reason |-> bounce_reason]}
    /\ emails' = MarkBounced(emails, email_id, bounce_reason)
    /\ UNCHANGED <<opens, clicks, now, purged>>

\* The statements already executed stay in the table.
NoRollback(before, written) == written

\* An exception inside `with sqlite3.connect(...) as conn:` makes the
\* connection roll the open transaction back: the table is as it was before.
Rollback(before, written) == before

\* EmailTracker.track_bounce ending in RuntimeError: the statement `at`
\* raised ("insert": the INSERT itself; "update": the UPDATE, after the
\* INSERT was executed; "commit": conn.commit(), after both).
track_bounce_raises(email_id, bounce_type, bounce_reason, at) ==
    LET row == [bounce_id |-> uuid4, email_id |-> email_id,
                bounce_type |-> bounce_type, bounce_reason |-> bounce_reason]
    IN  /\ uuidCount < MaxUuid
        /\ uuidCount' = uuid4
        /\ bounces' = Rollback(bounces, IF at = "insert" THEN bounces
                                        ELSE bounces \cup {row})
        /\ emails' = Rollback(emails, IF at = "commit"
                                      THEN MarkBounced(emails, email_id, bounce_reason)
                                      ELSE emails)
        /\ UNCHANGED <<opens, clicks, now, purged>>

\* The subquery evaluated on a table from which the old messages are gone.
NoOldEmailIds(cutoff) == {}

\* SELECT email_id FROM emails WHERE sent_time < cutoff
OldEmailIds(cutoff) == {e.email_id : e \in {r \in emails : r.sent_time < cutoff}}

\* EmailTracker.cleanup_old_data: deletes from opens, clicks, bounces the rows
\* of the old messages, then the old messages.
cleanup_old_data(days) ==
    LET cutoff_date == now - days
        old == OldEmailIds(cutoff_date)
    IN  /\ opens' = {o \in opens : o.email_id \notin old}
        /\ clicks' = {c \in clicks : c.email_id \notin old}
        /\ bounces' = {b \in bounces : b.email_id \notin old}
        /\ emails' = {e \in emails : ~(e.sent_time < cutoff_date)}
        /\ purged' = Cardinality({e \in emails : e.sent_time < cutoff_date})
        /\ UNCHANGED <<uuidCount, now>>

\* Time passes between two operations.
Tick ==
    /\ now < MaxClock
    /\ now' = now + 1
    /\ UNCHANGED <<emails, opens, clicks, bounces, uuidCount, purged>>

\* A row of the right-hand table that matched nothing in a LEFT JOIN.
NoRow == [email_id |-> NULL]

\* FROM emails e, without the WHERE clause.
AllCampaignEmails(campaign_id) == emails

\* FROM emails e WHERE e.campaign_id = ?
CampaignEmails(campaign_id) == {e \in emails : e.campaign_id = campaign_id}

\* FROM emails e JOIN <events> x ON e.email_id = x.email_id WHERE e.campaign_id = ?
InnerJoin(campaign_id, events) ==
    {<<e, x>> : e \in CampaignEmails(campaign_id), x \in events} \cap
    {p \in CampaignEmails(campaign_id) \X events : p[1].email_id = p[2].email_id}

\* FROM emails e LEFT JOIN <events> x ON e.email_id = x.email_id WHERE
\* e.campaign_id = ?: a message without event yields one row with NULLs.
LeftJoin(campaign_id, events) ==
    InnerJoin(campaign_id, events) \cup
    {<<e, NoRow>> : e \in {m \in CampaignEmails(campaign_id) :
                              \A x \in events : x.email_id # m.email_id}}

\* COUNT(DISTINCT e.email_id) over a join
CountDistinctEmailId(join) == Cardinality({p[1].email_id : p \in join})

\* COUNT(x.<id>) over a join: the rows whose right-hand side is not NULL
CountEventId(join) == Cardinality({p \in join : p[2] # NoRow})

\* A rate is the exact quotient num/den; den = 0 is Python's ZeroDivisionError.
Quotient(num, den) == [num |-> num, den |-> den]
Zero == Quotient(0, 1)
IsFault(rate) == rate.den = 0
IsZero(rate) == rate.den # 0 /\ rate.num = 0

\* The division without its guard.
UnguardedRate(num, den, guard) == Quotient(num * 100, den)

\* `(num / den * 100) if guard > 0 else 0`
GuardedRate(num, den, guard) == IF guard > 0 THEN Quotient(num * 100, den) ELSE Zero

\* EmailTracker.get_campaign_stats without a date range.
get_campaign_stats(campaign_id) ==
    LET total_sent == Cardinality(CampaignEmails(campaign_id))
        unique_recipients ==
            Cardinality({e.recipient_email : e \in CampaignEmails(campaign_id)})
        openJoin == LeftJoin(campaign_id, opens)
        unique_opens == CountDistinctEmailId(openJoin)
        total_opens == CountEventId(openJoin)
        clickJoin == LeftJoin(campaign_id, clicks)
        unique_clicks == CountDistinctEmailId(clickJoin)
        total_clicks == CountEventId(clickJoin)
        bounceJoin == InnerJoin(campaign_id, bounces)
        bounce_details ==
            [ty \in {p[2].bounce_type : p \in bounceJoin} |->
                Cardinality({p \in bounceJoin : p[2].bounce_type = ty})]
        total_bounces == Cardinality(bounceJoin)
    IN  [total_sent |-> total_sent,
         unique_recipients |-> unique_recipients,
         bounces |-> total_bounces,
         bounce_details |-> bounce_details,
         bounce_rate |-> GuardedRate(total_bounces, total_sent, total_sent),
         unique_opens |-> unique_opens,
         total_opens |-> total_opens,
         unique_clicks |-> unique_clicks,
         total_clicks |-> total_clicks,
         open_rate |-> GuardedRate(unique_opens, total_sent, total_sent),
         click_rate |-> GuardedRate(unique_clicks, total_sent, total_sent),
         click_to_open_rate |-> GuardedRate(unique_clicks, unique_opens, unique_opens)]

\* The message identifiers a caller can present: the identifier of a stored
\* message, or one that names no stored message.  (uuid4 values are fresh, so
\* the identifier of a purged message, or of an event row, names no message
\* now or later, exactly like Unknown.)
EmailIdInputs == {Unknown} \cup {e.email_id : e \in emails}

\* The beacon tokens a client can present: a token bound to a stored message,
\* or one that is bound to none.
PixelIdInputs == {Unknown} \cup ({e.tracking_pixel_id : e \in emails} \ {NULL})

\* No request has reached the tracking endpoint.
EndpointOff ==
    /\ request = [route |-> "none", id |-> Unknown, url |-> "None", remote_addr |-> ""]
    /\ trackerResult = "none"
    /\ response = [kind |-> "none", location |-> "None"]

\* No send_email with tracking is being followed.
ComposeOff ==
    /\ sendCtx = [tracker |-> FALSE, tracking_url |-> FALSE, is_html |-> FALSE,
                  body_tag |-> FALSE]
    /\ msg = [email_id |-> NULL, links |-> FALSE, beacon |-> FALSE]
    /\ handed = FALSE

\* The start-up of the identity routing is not being followed.
StartupOff ==
    /\ torCfg = [enabled |-> FALSE, retry_attempts |-> 1]
    /\ socket_socket = "socket"
    /\ senderTor = "off"
    /\ handler = [enabled |-> FALSE, state |-> "none", retry_count |-> 0]
    /\ probes = <<>>
    /\ startupError = "none"

\* The text of no message is being followed.
RenderOff ==
    /\ template = [subject |-> <<>>, content |-> <<>>, is_html |-> FALSE]
    /\ recipient = [first_name |-> <<>>, last_name |-> <<>>, email |-> <<>>,
                    company |-> <<>>]
    /\ rendered = [subject |-> <<>>, content |-> <<>>]
    /\ stage = "off"

\* No user agent under examination.
DeviceOff ==
    /\ user_agent = [present |-> FALSE, text |-> <<>>]
    /\ device_type = "off"

SideOff == EndpointOff /\ ComposeOff /\ StartupOff /\ RenderOff /\ DeviceOff

\* The dispatch machine at rest (the store is driven on its own).
DispatchOff ==
    /\ cfg = [batch_size |-> 1, max_retries |-> 1, use_api |-> FALSE,
              force_tor |-> FALSE, templates |-> 0, recipients |-> 0,
              listed |-> 0, test_mode |-> FALSE]
    /\ use_tor = FALSE
    /\ pc = "off"
    /\ tIdx = 0 /\ bStart = 0 /\ rIdx = 0
    /\ tplOversized = FALSE
    /\ retry_count = 0
    /\ sendLog = <<>> /\ runLog = <<>>
    /\ sendFailed = FALSE
    /\ emailDelay = FALSE
    /\ anySent = FALSE

\* A store just created by EmailTracker.__init__.
InitStore ==
    /\ emails = InitDatabaseTables.emails
    /\ opens = InitDatabaseTables.opens
    /\ clicks = InitDatabaseTables.clicks
    /\ bounces = InitDatabaseTables.bounces
    /\ uuidCount = 0
    /\ now = 0
    /\ purged = 0
    /\ DispatchOff
    /\ SideOff

\* The callers of the store, each leaving the dispatch machine alone.
\* EmailTracker(db_path=...) at the import of tracking_server.py, in
\* EmailSender.__init__ and in EmailCampaign.__init__.
OpenStore == InitDatabase /\ UNCHANGED <<dispatchVars, sideVars>>

RegisterSend ==
    /\ \E r \in Recipients, c \in Campaigns : track_email_send(r, c)
    /\ UNCHANGED <<dispatchVars, sideVars>>

MintBeaconToken ==
    /\ \E id \in EmailIdInputs : create_tracking_pixel(id)
    /\ UNCHANGED <<dispatchVars, sideVars>>

\* GET /pixel/<pixel_id>
RecordOpen ==
    /\ \E px \in PixelIdInputs, a \in Addrs : track_open(px, a)
    /\ UNCHANGED <<dispatchVars, sideVars>>

\* GET /click?eid=&url=
RecordClick ==
    /\ \E id \in EmailIdInputs, u \in Urls, a \in Addrs : track_click(id, u, a)
    /\ UNCHANGED <<dispatchVars, sideVars>>

\* track_bounce goes through, or one of its statements raises.
RecordBounce ==
    /\ \E id \in EmailIdInputs, b \in BounceInputs :
          \/ track_bounce(id, b[1], b[2])
          \/ \E at \in {"insert", "update", "commit"} :
                track_bounce_raises(id, b[1], b[2], at)
    /\ UNCHANGED <<dispatchVars, sideVars>>

PurgeOlderThan ==
    /\ \E days \in 0 .. MaxDays : cleanup_old_data(days)
    /\ UNCHANGED <<dispatchVars, sideVars>>

ClockTick == Tick /\ UNCHANGED <<dispatchVars, sideVars>>

NextStore ==
    \/ OpenStore
    \/ RegisterSend
    \/ MintBeaconToken
    \/ RecordOpen
    \/ RecordClick
    \/ RecordBounce
    \/ PurgeOlderThan
    \/ ClockTick

SpecStore == InitStore /\ [][NextStore]_vars

(***************************************************************************)
(* Tracking endpoint: tracking_server.py, over the same store              *)
(***************************************************************************)
\* request.args.get('url'): "None" stands for a missing parameter.
UrlInputs == {"None"} \cup Urls
\* request.args.get('eid'): NULL stands for a missing parameter.
EidInputs == {NULL} \cup EmailIdInputs

\* send_file('static/pixel.gif', mimetype='image/gif')
send_file == [kind |-> "image", location |-> "static/pixel.gif"]
\* redirect(original_url)
redirect(original_url) == [kind |-> "redirect", location |-> original_url]

\* A sqlite3 error inside a call of the tracker: the connection's with-block
\* rolls the transaction back and the except clause raises RuntimeError.
TrackerRaises == UNCHANGED storeVars

\* The error leaves the handler: the client gets an error page.
ErrorPage(resp) == [kind |-> "error", location |-> "None"]

\* `except Exception` of both handlers: the error is logged and the handler
\* returns what its try block would have returned.
OnTrackerError(resp) == resp

\* GET /pixel/<pixel_id>
PixelRequest ==
    /\ \E px \in PixelIdInputs, addr \in RemoteAddrs, store_ok \in BOOLEAN :
          /\ request' = [route |-> "pixel", id |-> px, url |-> "None",
                         remote_addr |-> addr]
          /\ IF store_ok
             THEN /\ track_open(px, addr)
                  /\ trackerResult' = "returned"
                  /\ response' = send_file
             ELSE /\ TrackerRaises
                  /\ trackerResult' = "RuntimeError"
                  /\ response' = OnTrackerError(send_file)
    /\ UNCHANGED <<dispatchVars, composeVars, startupVars, renderVars, deviceVars>>

\* GET /click?eid=&url=
ClickRequest ==
    /\ \E id \in EidInputs, u \in UrlInputs, addr \in RemoteAddrs, store_ok \in BOOLEAN :
          /\ request' = [route |-> "click", id |-> id, url |-> u, remote_addr |-> addr]
          /\ IF id # NULL /\ u # "None"
             THEN IF store_ok
                  THEN /\ track_click(id, u, addr)
                       /\ trackerResult' = "returned"
                       /\ response' = redirect(u)
                  ELSE /\ TrackerRaises
                       /\ trackerResult' = "RuntimeError"
                       /\ response' = OnTrackerError(redirect(u))
             ELSE /\ UNCHANGED storeVars
                  /\ trackerResult' = "none"
                  /\ response' = redirect(u)
    /\ UNCHANGED <<dispatchVars, composeVars, startupVars, renderVars, deviceVars>>

\* send_email of the one campaign of a run registers a message.
CampaignSend ==
    /\ \E r \in Recipients : track_email_send(r, "A")
    /\ UNCHANGED <<dispatchVars, sideVars>>

\* The endpoint serves requests while the dispatch loop registers sends and
\* mints tokens in the same database.
NextEndpoint == CampaignSend \/ MintBeaconToken \/ PixelRequest \/ ClickRequest

SpecEndpoint == InitStore /\ [][NextEndpoint]_vars

\* The two processes that share data/tracking.db: the dispatch loop
\* (track_email_send, create_tracking_pixel) and tracking_server.py, whose
\* import constructs an EmailTracker of its own and whose routes call
\* track_open and track_click; every call is one transaction.
NextConcurrent ==
    CampaignSend \/ MintBeaconToken \/ OpenStore \/ RecordOpen \/ RecordClick

SpecConcurrent == InitStore /\ [][NextConcurrent]_vars

\* The writers whose effect the statistics of a campaign show: sends, opens
\* (with the tokens they need), clicks and bounces, of either campaign.
NextCampaigns ==
    RegisterSend \/ MintBeaconToken \/ RecordOpen \/ RecordClick \/ RecordBounce

SpecCampaigns == InitStore /\ [][NextCampaigns]_vars

(***************************************************************************)
(* Transport: email_sender.py, _send_via_smtp and _send_via_api            *)
(***************************************************************************)
\* What one transmission can do: succeed, fail with a transport fault, fail
\* with smtplib.SMTPServerDisconnected (the connection dropped).
Outcomes == {"ok", "fault", "dropped"}
\* refresh_tor_circuit: the controller answers, or authentication/signal fails.
RefreshOutcomes == {"ok", "fault"}

\* Events of sendLog.  An attempt is one pass through the try block of the
\* retry loop; it ends with a transmission outcome, or with "refresh_raised"
\* when the forced identity refresh raised before anything was transmitted.
AttemptEvents == Outcomes \cup {"refresh_raised"}
SleepEvent == "sleep_retry_delay"

\* The except handlers of both loops: retry_count += 1, then sleep and go
\* round again if retry_count < max_retries, else re-raise.
RetryDecision(count, max_retries) ==
    IF count + 1 < max_retries
    THEN [pc |-> "attempt", retry_count |-> count + 1, events |-> <<SleepEvent>>]
    ELSE [pc |-> "raised", retry_count |-> count + 1, events |-> <<>>]

\* A transmission that went through: `return` out of the loop.
SuccessDecision(count) == [pc |-> "returned", retry_count |-> count, events |-> <<>>]

\* EmailSender.refresh_tor_circuit as seen by its caller: "skipped" when Tor
\* is off, "raised" when the refresh failed and force_tor is set, "warned"
\* when it failed without force_tor (logged, nothing raised), else "done".
refresh_tor_circuit(refresh) ==
    IF ~use_tor THEN "skipped"
    ELSE IF refresh = "ok" THEN "done"
    ELSE IF cfg.force_tor THEN "raised"
    ELSE "warned"

\* What a refresh leaves in sendLog: when it is performed, the NEWNYM signal
\* and the sleep of circuit_build_timeout.
RefreshEvents(r) ==
    IF r \in {"raised", "warned"} THEN <<"refresh_failed">>
    ELSE IF r = "done" THEN <<"newnym", "sleep_circuit_build">>
    ELSE <<>>

\* The handler of smtplib.SMTPServerDisconnected: like the general handler,
\* and after the sleep, if Tor is on, `socket.socket = socket._socketobject`
\* runs before use_tor is cleared.  The socket module of Python 3 has no
\* attribute _socketobject, so that line raises AttributeError inside the
\* handler, which leaves _send_via_smtp at once.
DisconnectedDecision(count, max_retries, tor) ==
    IF count + 1 < max_retries /\ tor
    THEN [pc |-> "raised", retry_count |-> count + 1,
          events |-> <<SleepEvent, "attribute_error">>]
    ELSE RetryDecision(count, max_retries)

\* The inner handler with the force_tor test left out.
TorOffAfterFailedRefresh(r) == IF r = "raised" THEN FALSE ELSE use_tor

\* use_tor after the inner try of _send_via_smtp: the handler of a refresh
\* that raised clears it `if not force_tor`.
TorAfterRefresh(r) == IF r = "raised" /\ ~cfg.force_tor THEN FALSE ELSE use_tor

\* One iteration of the while loop of _send_via_smtp.  A refresh that raised
\* is caught by the inner try (use_tor is cleared there only without
\* force_tor, a case in which refresh_tor_circuit does not raise), and the
\* message is transmitted in any case.
SmtpIteration(refresh, outcome) ==
    LET r == refresh_tor_circuit(refresh)
        tor == TorAfterRefresh(r)
        d == IF outcome = "ok" THEN SuccessDecision(retry_count)
             ELSE IF outcome = "dropped"
             THEN DisconnectedDecision(retry_count, cfg.max_retries, tor)
             ELSE RetryDecision(retry_count, cfg.max_retries)
    IN  /\ pc' = d.pc
        /\ retry_count' = d.retry_count
        /\ sendLog' = sendLog \o RefreshEvents(r) \o <<outcome>> \o d.events
        /\ use_tor' = tor

\* One iteration of the while loop of _send_via_api.  A refresh that raised
\* lands in the loop's only except clause: nothing is transmitted and the
\* iteration counts as a failed attempt.
ApiIteration(refresh, outcome) ==
    LET r == refresh_tor_circuit(refresh)
        d == IF r # "raised" /\ outcome = "ok" THEN SuccessDecision(retry_count)
             ELSE RetryDecision(retry_count, cfg.max_retries)
    IN  /\ pc' = d.pc
        /\ retry_count' = d.retry_count
        /\ sendLog' = sendLog \o
                        (IF r = "raised" THEN <<"refresh_raised">>
                         ELSE RefreshEvents(r) \o <<outcome>>) \o d.events
        /\ use_tor' = use_tor

\* The refresh outcomes that can differ: none when Tor is off.
RefreshInputs == IF use_tor THEN RefreshOutcomes ELSE {"ok"}

SmtpAttempt ==
    /\ pc = "attempt" /\ ~cfg.use_api
    /\ retry_count < cfg.max_retries
    /\ \E refresh \in RefreshInputs, outcome \in Outcomes : SmtpIteration(refresh, outcome)
    /\ UNCHANGED <<cfg, tIdx, bStart, rIdx, tplOversized, runLog, sendFailed,
                   emailDelay, anySent>>
    /\ UNCHANGED <<storeVars, sideVars>>

ApiAttempt ==
    /\ pc = "attempt" /\ cfg.use_api
    /\ retry_count < cfg.max_retries
    /\ \E refresh \in RefreshInputs, outcome \in Outcomes : ApiIteration(refresh, outcome)
    /\ UNCHANGED <<cfg, tIdx, bStart, rIdx, tplOversized, runLog, sendFailed,
                   emailDelay, anySent>>
    /\ UNCHANGED <<storeVars, sideVars>>

\* `while retry_count < max_retries` is false: the function ends without
\* having raised.
LoopExit ==
    /\ pc = "attempt"
    /\ ~(retry_count < cfg.max_retries)
    /\ pc' = "returned"
    /\ UNCHANGED <<cfg, use_tor, tIdx, bStart, rIdx, tplOversized, retry_count,
                   sendLog, runLog, sendFailed, emailDelay, anySent>>
    /\ UNCHANGED <<storeVars, sideVars>>

\* The store at rest (the dispatch machine is driven on its own).
StoreOff ==
    /\ emails = {} /\ opens = {} /\ clicks = {} /\ bounces = {}
    /\ uuidCount = 0 /\ now = 0 /\ purged = 0

\* Test mode that truncates nothing.
KeepAllRecipients(test_mode, listed) == listed

\* `if test_mode: recipients = recipients[:1]`: the length of the list the
\* loops run over, a prefix of the loaded list (entry r of the one is entry
\* r of the other).
ApplyTestMode(test_mode, listed) ==
    IF test_mode THEN (IF listed > 1 THEN 1 ELSE listed) ELSE listed

\* The configurations of a run: the settings read from the configuration
\* file, the number of entries load_recipients returned (listed), the
\* test_mode argument, and the number of recipients the loops run over.
Configs ==
    {[batch_size |-> b, max_retries |-> m, use_api |-> a, force_tor |-> f,
      templates |-> t, recipients |-> ApplyTestMode(tm, l),
      listed |-> l, test_mode |-> tm] :
        b \in 1 .. MaxBatch, m \in 0 .. MaxRetries, a \in BOOLEAN,
        f \in BOOLEAN, t \in 1 .. MaxTemplates, l \in 0 .. MaxRecipients,
        tm \in BOOLEAN}

\* One message handed to the transport: the entry of _send_via_smtp or
\* _send_via_api, under any configuration.
InitSend ==
    /\ cfg \in {c \in Configs : /\ c.templates = 1 /\ c.recipients = 1
                               /\ c.batch_size = 1 /\ ~c.test_mode}
    /\ use_tor \in BOOLEAN
    /\ pc = "attempt"
    /\ tIdx = 1 /\ bStart = 0 /\ rIdx = 1
    /\ tplOversized = FALSE
    /\ retry_count = 0
    /\ sendLog = <<>> /\ runLog = <<>>
    /\ sendFailed = FALSE
    /\ emailDelay = FALSE
    /\ anySent = FALSE
    /\ StoreOff
    /\ SideOff

NextSend == SmtpAttempt \/ ApiAttempt \/ LoopExit

SpecSend == InitSend /\ [][NextSend]_vars

(***************************************************************************)
(* Dispatch loop: main.py, EmailCampaign.send_campaign                     *)
(***************************************************************************)
\* `for i in range(0, len(recipients), batch_size)`: another value follows i.
RangeHasNext(i, recipients, batch_size) == i + batch_size < recipients

\* The delay also after a final batch that is full.
BatchDelayAfterFullBatch(i, recipients, batch_size) == i + batch_size <= recipients

\* `if i + batch_size < len(recipients)`: the delay between batches is due.
BatchDelayDue(i, recipients, batch_size) == i + batch_size < recipients

\* len(recipients[i:i + batch_size])
BatchLen(i, recipients, batch_size) ==
    IF i + batch_size <= recipients THEN batch_size ELSE recipients - i

\* The position after template t: the next template is loaded, or the run
\* logs "completed".
AfterTemplate(t) ==
    IF t < cfg.templates
    THEN [pc |-> "template", tIdx |-> t + 1, bStart |-> 0, rIdx |-> 0, events |-> <<>>]
    ELSE [pc |-> "done", tIdx |-> t, bStart |-> 0, rIdx |-> 0, events |-> <<>>]

\* The position after the recipient at index rIdx (1-based) of the batch that
\* starts at bStart has been dealt with: the next recipient of the batch;
\* after the last one the delay between batches if it is due, and the next
\* batch or the next template.
AfterRecipient ==
    IF rIdx < bStart + BatchLen(bStart, cfg.recipients, cfg.batch_size)
    THEN [pc |-> "recipient", tIdx |-> tIdx, bStart |-> bStart, rIdx |-> rIdx + 1,
          events |-> <<>>]
    ELSE LET delay == IF BatchDelayDue(bStart, cfg.recipients, cfg.batch_size)
                      THEN <<<<"sleep_batch", tIdx, 0>>>> ELSE <<>>
         IN  IF RangeHasNext(bStart, cfg.recipients, cfg.batch_size)
             THEN [pc |-> "recipient", tIdx |-> tIdx,
                   bStart |-> bStart + cfg.batch_size,
                   rIdx |-> bStart + cfg.batch_size + 1, events |-> delay]
             ELSE [AfterTemplate(tIdx) EXCEPT !.events = delay]

\* The failure of a send leaves the loops.
AfterFailureAbort ==
    [pc |-> "failed", tIdx |-> tIdx, bStart |-> bStart, rIdx |-> rIdx, events |-> <<>>]

\* `except Exception ... continue` around send_email: the failure is logged
\* and the loop goes on with the next recipient.
AfterFailure == AfterRecipient

\* send_email returned: "Successfully sent", then the delay between emails
\* (recorded in emailDelay), and the loop goes on.
AfterSuccess == AfterRecipient

Goto(p) ==
    /\ pc' = p.pc /\ tIdx' = p.tIdx /\ bStart' = p.bStart /\ rIdx' = p.rIdx
    /\ runLog' = runLog \o p.events

\* EmailTemplate(...) for the next template: it raises (undecodable base64,
\* missing attachment) and the exception leaves send_campaign, or it loads;
\* then the first batch starts, if there is any recipient.
LoadTemplate ==
    /\ pc = "template"
    /\ \E loads \in BOOLEAN, oversized \in BOOLEAN :
          IF ~loads
          THEN /\ pc' = "failed"
               /\ runLog' = Append(runLog, <<"template_error", tIdx, 0>>)
               /\ UNCHANGED <<tIdx, bStart, rIdx, tplOversized>>
          ELSE /\ tplOversized' = oversized
               /\ IF cfg.recipients > 0
                  THEN Goto([pc |-> "recipient", tIdx |-> tIdx, bStart |-> 0,
                             rIdx |-> 1, events |-> <<>>])
                  ELSE Goto(AfterTemplate(tIdx))
    /\ UNCHANGED <<cfg, use_tor, retry_count, sendLog, sendFailed, emailDelay, anySent>>
    /\ UNCHANGED <<storeVars, sideVars>>

\* send_email up to the hand-over to the transport: the message is composed;
\* an attachment over max_attachment_size raises ValueError, which the loop
\* handles like any failure of send_email.
BeginSend ==
    /\ pc = "recipient"
    /\ IF tplOversized
       THEN /\ Goto([AfterFailure EXCEPT !.events = <<<<"send", tIdx, rIdx>>>> \o @])
            /\ emailDelay' = FALSE
            /\ UNCHANGED <<retry_count, sendLog>>
       ELSE /\ pc' = "attempt"
            /\ retry_count' = 0
            /\ sendLog' = <<>>
            /\ runLog' = Append(runLog, <<"send", tIdx, rIdx>>)
            /\ UNCHANGED <<tIdx, bStart, rIdx, emailDelay>>
    /\ UNCHANGED <<cfg, use_tor, tplOversized, sendFailed, anySent>>
    /\ UNCHANGED <<storeVars, sideVars>>

\* The transport returned or raised: back in the loop of send_campaign.
EndSend ==
    /\ pc \in {"returned", "raised"}
    /\ IF pc = "returned" THEN Goto(AfterSuccess) ELSE Goto(AfterFailure)
    /\ sendFailed' = (sendFailed \/ pc = "raised")
    /\ emailDelay' = (pc = "returned")
    /\ anySent' = (anySent \/ \E i \in 1 .. Len(sendLog) : sendLog[i] = "ok")
    /\ sendLog' = <<>>
    /\ retry_count' = 0
    /\ UNCHANGED <<cfg, use_tor, tplOversized>>
    /\ UNCHANGED <<storeVars, sideVars>>

\* send_campaign after validation and load_recipients, before the first
\* template.
Init ==
    /\ cfg \in Configs
    /\ use_tor \in BOOLEAN
    /\ pc = "template"
    /\ tIdx = 1 /\ bStart = 0 /\ rIdx = 0
    /\ tplOversized = FALSE
    /\ retry_count = 0
    /\ sendLog = <<>> /\ runLog = <<>>
    /\ sendFailed = FALSE
    /\ emailDelay = FALSE
    /\ anySent = FALSE
    /\ StoreOff
    /\ SideOff

Next == LoadTemplate \/ BeginSend \/ SmtpAttempt \/ ApiAttempt \/ LoopExit \/ EndSend

Spec == Init /\ [][Next]_vars

\* A transmission whose peer stays silent: smtplib.SMTP(host, port) and
\* requests.post(...) are called without a timeout, so the call waits for
\* the reply for ever and nothing of the run is executed after it.
AttemptBlocks ==
    /\ pc = "attempt"
    /\ retry_count < cfg.max_retries
    /\ pc' = "blocked"
    /\ sendLog' = Append(sendLog, "no_reply")
    /\ UNCHANGED <<cfg, use_tor, tIdx, bStart, rIdx, tplOversized, retry_count,
                   runLog, sendFailed, emailDelay, anySent>>
    /\ UNCHANGED <<storeVars, sideVars>>

NextRun == Next \/ AttemptBlocks

\* The run as one thread executes it: whatever statement is next is
\* executed, as long as there is one.
SpecRun == Init /\ [][NextRun]_vars /\ WF_vars(NextRun)

(***************************************************************************)
(* One call of send_email with its tracking: email_sender.py               *)
(***************************************************************************)
\* `if self.tracker and campaign_id:` email_id = track_email_send(...); a
\* failure of the store leaves send_email as an exception.
TrackSend ==
    /\ pc = "send_email"
    /\ IF sendCtx.tracker
       THEN \E store_ok \in BOOLEAN :
               IF store_ok
               THEN /\ \E r \in Recipients : track_email_send(r, "A")
                    /\ msg' = [msg EXCEPT !.email_id = uuid4]
                    /\ pc' = "instrument"
               ELSE /\ TrackerRaises
                    /\ pc' = "raised"
                    /\ UNCHANGED msg
       ELSE /\ pc' = "instrument"
            /\ UNCHANGED <<storeVars, msg>>
    /\ UNCHANGED <<cfg, use_tor, tIdx, bStart, rIdx, tplOversized, retry_count,
                   sendLog, runLog, sendFailed, emailDelay, anySent>>
    /\ UNCHANGED <<endpointVars, startupVars, renderVars, deviceVars, sendCtx, handed>>

\* `if self.tracker and email_id and tracking_url:` the links are rewritten
\* and a token is minted; the beacon is put in front of '</body>' when the
\* template is HTML.
Instrument ==
    /\ pc = "instrument"
    /\ IF sendCtx.tracker /\ msg.email_id # NULL /\ sendCtx.tracking_url
       THEN \E store_ok \in BOOLEAN :
               IF store_ok
               THEN /\ create_tracking_pixel(msg.email_id)
                    /\ msg' = [msg EXCEPT !.links = TRUE,
                                          !.beacon = sendCtx.is_html /\ sendCtx.body_tag]
                    /\ pc' = "compose"
               ELSE /\ TrackerRaises
                    /\ pc' = "raised"
                    /\ UNCHANGED msg
       ELSE /\ pc' = "compose"
            /\ UNCHANGED <<storeVars, msg>>
    /\ UNCHANGED <<cfg, use_tor, tIdx, bStart, rIdx, tplOversized, retry_count,
                   sendLog, runLog, sendFailed, emailDelay, anySent>>
    /\ UNCHANGED <<endpointVars, startupVars, renderVars, deviceVars, sendCtx, handed>>

\* The MIME message is built; _add_attachments raises ValueError on an
\* attachment over max_attachment_size; else the message goes to
\* _send_via_api or _send_via_smtp.
Compose ==
    /\ pc = "compose"
    /\ IF tplOversized
       THEN pc' = "raised" /\ UNCHANGED handed
       ELSE pc' = "attempt" /\ handed' = TRUE
    /\ UNCHANGED <<cfg, use_tor, tIdx, bStart, rIdx, tplOversized, retry_count,
                   sendLog, runLog, sendFailed, emailDelay, anySent>>
    /\ UNCHANGED <<storeVars, endpointVars, startupVars, renderVars, deviceVars, sendCtx, msg>>

\* send_email is called for one recipient, under any configuration, with or
\* without tracker, tracking_url, HTML template, '</body>' in it, oversized
\* attachment.
InitSendEmail ==
    /\ cfg \in {c \in Configs : /\ c.templates = 1 /\ c.recipients = 1
                               /\ c.batch_size = 1 /\ ~c.test_mode}
    /\ use_tor \in BOOLEAN
    /\ pc = "send_email"
    /\ tIdx = 1 /\ bStart = 0 /\ rIdx = 1
    /\ tplOversized \in BOOLEAN
    /\ retry_count = 0
    /\ sendLog = <<>> /\ runLog = <<>>
    /\ sendFailed = FALSE
    /\ emailDelay = FALSE
    /\ anySent = FALSE
    /\ StoreOff
    /\ EndpointOff
    /\ StartupOff
    /\ RenderOff
    /\ DeviceOff
    /\ sendCtx \in [tracker : BOOLEAN, tracking_url : BOOLEAN, is_html : BOOLEAN,
                     body_tag : BOOLEAN]
    /\ msg = [email_id |-> NULL, links |-> FALSE, beacon |-> FALSE]
    /\ handed = FALSE

NextSendEmail ==
    TrackSend \/ Instrument \/ Compose \/ SmtpAttempt \/ ApiAttempt \/ LoopExit

SpecSendEmail == InitSendEmail /\ [][NextSendEmail]_vars

(***************************************************************************)
(* Start-up of the identity routing: EmailCampaign.__init__,               *)
(* EmailSender._setup_tor, TorHandler._setup_tor                           *)
(***************************************************************************)
\* What https://check.torproject.org/api/ip can answer: IsTor true, IsTor
\* false, or the request fails.
ProbeOutcomes == {"tor", "not_tor", "error"}

\* `socket.socket = socket._socketobject`: the socket module of Python 3 has
\* no attribute _socketobject, the statement raises AttributeError.
ResetSocket == "AttributeError"

\* EmailSender.__init__: _setup_tor when use_tor; the socket is patched, one
\* probe is made (_test_tor_connection).  On failure: RuntimeError with
\* force_tor; else the except clause tries to reset the socket, which raises
\* before use_tor is cleared.  Either exception leaves EmailCampaign.__init__.
SenderSetupTor ==
    /\ pc = "sender_init"
    /\ IF ~use_tor
       THEN /\ pc' = "handler_init"
            /\ UNCHANGED <<socket_socket, senderTor, probes, startupError>>
       ELSE \E probe \in ProbeOutcomes :
               /\ socket_socket' = "socksocket"
               /\ probes' = Append(probes, <<"sender", probe>>)
               /\ IF probe = "tor"
                  THEN /\ senderTor' = "established"
                       /\ pc' = "handler_init"
                       /\ UNCHANGED startupError
                  ELSE /\ senderTor' = "failed"
                       /\ pc' = "startup_failed"
                       /\ startupError' = IF cfg.force_tor THEN "RuntimeError"
                                          ELSE ResetSocket
    /\ UNCHANGED <<cfg, use_tor, tIdx, bStart, rIdx, tplOversized, retry_count,
                   sendLog, runLog, sendFailed, emailDelay, anySent>>
    /\ UNCHANGED <<storeVars, endpointVars, composeVars, renderVars, deviceVars, torCfg, handler>>

\* `if self.config.get('tor', {}).get('enabled')`: TorHandler(config), whose
\* __init__ calls _setup_tor: the socket is patched and the probe loop
\* starts.
HandlerInit ==
    /\ pc = "handler_init"
    /\ IF torCfg.enabled
       THEN /\ handler' = [enabled |-> TRUE, state |-> "connecting", retry_count |-> 0]
            /\ socket_socket' = "socksocket"
            /\ pc' = "handler_probe"
       ELSE /\ pc' = "started"
            /\ UNCHANGED <<handler, socket_socket>>
    /\ UNCHANGED <<cfg, use_tor, tIdx, bStart, rIdx, tplOversized, retry_count,
                   sendLog, runLog, sendFailed, emailDelay, anySent>>
    /\ UNCHANGED <<storeVars, endpointVars, composeVars, renderVars, deviceVars, torCfg, senderTor, probes,
                   startupError>>

\* TorHandler._setup_tor after _test_tor_connection raised: logged; with
\* force_tor RuntimeError, which EmailCampaign.__init__ re-raises; else
\* nothing more (enabled and the patched socket stay as they are).
HandlerSetupFailed(h) ==
    IF cfg.force_tor
    THEN [pc |-> "startup_failed", error |-> "RuntimeError",
          handler |-> [h EXCEPT !.state = "failed"]]
    ELSE [pc |-> "started", error |-> "none",
          handler |-> [h EXCEPT !.state = "failed"]]

\* One iteration of `while retry_count < self.max_retries` of
\* TorHandler._test_tor_connection: a probe; IsTor ends the loop with True,
\* anything else counts a retry and, after the last one, raises.
HandlerProbe ==
    /\ pc = "handler_probe"
    /\ handler.retry_count < torCfg.retry_attempts
    /\ \E probe \in ProbeOutcomes :
          /\ probes' = Append(probes, <<"handler", probe>>)
          /\ IF probe = "tor"
             THEN /\ handler' = [handler EXCEPT !.state = "established"]
                  /\ pc' = "started"
                  /\ UNCHANGED startupError
             ELSE LET h == [handler EXCEPT !.retry_count = @ + 1]
                  IN  IF h.retry_count < torCfg.retry_attempts
                      THEN /\ handler' = h
                           /\ UNCHANGED <<pc, startupError>>
                      ELSE /\ handler' = HandlerSetupFailed(h).handler
                           /\ pc' = HandlerSetupFailed(h).pc
                           /\ startupError' = HandlerSetupFailed(h).error
    /\ UNCHANGED <<cfg, use_tor, tIdx, bStart, rIdx, tplOversized, retry_count,
                   sendLog, runLog, sendFailed, emailDelay, anySent>>
    /\ UNCHANGED <<storeVars, endpointVars, composeVars, renderVars, deviceVars, torCfg, socket_socket,
                   senderTor>>

\* The condition of the while loop is false: _test_tor_connection ends
\* without having raised, and _setup_tor logs "Tor connection established".
HandlerLoopExit ==
    /\ pc = "handler_probe"
    /\ ~(handler.retry_count < torCfg.retry_attempts)
    /\ handler' = [handler EXCEPT !.state = "established"]
    /\ pc' = "started"
    /\ UNCHANGED <<cfg, use_tor, tIdx, bStart, rIdx, tplOversized, retry_count,
                   sendLog, runLog, sendFailed, emailDelay, anySent>>
    /\ UNCHANGED <<storeVars, endpointVars, composeVars, renderVars, deviceVars, torCfg, socket_socket,
                   senderTor, probes, startupError>>

\* EmailCampaign.__init__ at `self.email_sender = EmailSender(...)`, under any
\* configuration of the `tor` section.
InitStartup ==
    /\ cfg \in {c \in Configs : /\ c.templates = 1 /\ c.recipients = 1
                               /\ c.batch_size = 1 /\ ~c.test_mode}
    /\ torCfg \in [enabled : BOOLEAN, retry_attempts : 0 .. MaxRetries]
    /\ use_tor = torCfg.enabled
    /\ pc = "sender_init"
    /\ tIdx = 1 /\ bStart = 0 /\ rIdx = 0
    /\ tplOversized = FALSE
    /\ retry_count = 0
    /\ sendLog = <<>> /\ runLog = <<>>
    /\ sendFailed = FALSE
    /\ emailDelay = FALSE
    /\ anySent = FALSE
    /\ StoreOff
    /\ EndpointOff
    /\ ComposeOff
    /\ RenderOff
    /\ DeviceOff
    /\ socket_socket = "socket"
    /\ senderTor = "off"
    /\ handler = [enabled |-> FALSE, state |-> "none", retry_count |-> 0]
    /\ probes = <<>>
    /\ startupError = "none"

NextStartup == SenderSetupTor \/ HandlerInit \/ HandlerProbe \/ HandlerLoopExit

SpecStartup == InitStartup /\ [][NextStartup]_vars

(***************************************************************************)
(* The text of one message: EmailTemplate.replace_placeholders, the link   *)
(* rewriting and the beacon of send_email                                  *)
(***************************************************************************)
\* A text is a sequence of lexemes [kind, val], val a sequence of strings:
\*   "text"  plain text;
\*   "ph"    the placeholder {{.val[1]}};
\*   "tag"   the tag val[1];
\*   "href"  the attribute href="val", val being the URL character by
\*           character;
\*   "img"   the <img> of generate_tracking_pixel for the domain val[1] and
\*           the token val[2].
Txt(t) == [kind |-> "text", val |-> <<t>>]
Ph(key) == [kind |-> "ph", val |-> <<key>>]
BodyTag == [kind |-> "tag", val |-> <<"</body>">>]
Href(url) == [kind |-> "href", val |-> url]
Img(tracking_domain, token) == [kind |-> "img", val |-> <<tracking_domain, token>>]

\* The URLs of the links of a template: plain, with a query separator, with
\* a space and a plus sign, with a percent escape of its own; and href="".
HrefUrls == {<<"a">>, <<"a", "&", "b">>, <<"a", " ", "+">>, <<"%", "2", "6">>, <<>>}

Lexemes ==
    {Txt("Hi"), Ph("FirstName"), Ph("LastName"), Ph("Company"), BodyTag}
        \cup {Href(u) : u \in HrefUrls}

\* Template contents of 1 to MaxLen lexemes.
Contents == UNION {[1 .. n -> Lexemes] : n \in 1 .. MaxLen}
Subjects == {<<Ph("FirstName")>>, <<Txt("Hi"), Ph("Company")>>}
\* first_name as the CSV file has it: a name, or text shaped like a
\* placeholder.
FirstNames == {<<Txt("Ann")>>, <<Ph("LastName")>>}

\* The arguments of send_email next to template and recipient.
landing_page == <<Txt("http://landing")>>
TrackingDomain == "track.example"
MsgEmailId == <<"e1">>
MsgPixelId == "px1"

RECURSIVE Replace(_, _, _)
\* str.replace(old, new), old being one lexeme: every occurrence, from left
\* to right.
Replace(text, old, new) ==
    IF text = <<>> THEN <<>>
    ELSE (IF Head(text) = old THEN new ELSE <<Head(text)>>)
             \o Replace(Tail(text), old, new)

\* The dict `replacements` of send_email, in insertion order: five fixed
\* keys; no other field of the recipient record is read.
Replacements(r) ==
    << <<"FirstName", r.first_name>>, <<"LastName", r.last_name>>,
       <<"Email", r.email>>, <<"URL", landing_page>>,
       <<"TrackingURL", <<Txt(TrackingDomain)>> >> >>

RECURSIVE ReplaceEach(_, _)
\* `for key, value in replacements.items(): text = text.replace(...)`
ReplaceEach(text, replacements) ==
    IF replacements = <<>> THEN text
    ELSE ReplaceEach(Replace(text, Ph(Head(replacements)[1]), Head(replacements)[2]),
                     Tail(replacements))

\* EmailTemplate.replace_placeholders
replace_placeholders(tpl, replacements) ==
    [subject |-> ReplaceEach(tpl.subject, replacements),
     content |-> ReplaceEach(tpl.content, replacements)]

\* The character as it is.
RawChar(c) == <<c>>

\* urllib.parse.quote_plus on one character: a space becomes '+', a reserved
\* character its percent escape, an unreserved one stays.
Quote(c) ==
    CASE c = " " -> <<"+">>
      [] c = "&" -> <<"%", "2", "6">>
      [] c = "%" -> <<"%", "2", "5">>
      [] c = "+" -> <<"%", "2", "B">>
      [] c = "=" -> <<"%", "3", "D">>
      [] OTHER -> <<c>>

RECURSIVE quote_plus(_)
quote_plus(str) ==
    IF str = <<>> THEN <<>> ELSE Quote(Head(str)) \o quote_plus(Tail(str))

RECURSIVE urlencode(_)
\* urllib.parse.urlencode of the pairs of a dict: k=v joined by '&'.
urlencode(params) ==
    IF params = <<>> THEN <<>>
    ELSE quote_plus(Head(params)[1]) \o <<"=">> \o quote_plus(Head(params)[2])
            \o (IF Tail(params) = <<>> THEN <<>> ELSE <<"&">> \o urlencode(Tail(params)))

\* hashlib.sha256(f"{email_id}:{original_url}").hexdigest()[:12]: hex digits.
Tid(id, original_url) == <<"h">>

\* replace_link of generate_tracking_links: the attribute that replaces one
\* match.
replace_link(original_url, id, tracking_domain) ==
    Href(<<"https://", tracking_domain, "/click?">> \o
         urlencode(<< << <<"eid">>, id >>, << <<"url">>, original_url >>,
                      << <<"tid">>, Tid(id, original_url) >> >>))

RECURSIVE generate_tracking_links(_, _, _)
\* EmailTracker.generate_tracking_links: re.sub(r'href="([^"]+)"', ...): every
\* href attribute with a non-empty value is rewritten, the rest is copied.
generate_tracking_links(content, id, tracking_domain) ==
    IF content = <<>> THEN <<>>
    ELSE LET x == Head(content)
         IN  <<IF x.kind = "href" /\ x.val # <<>>
               THEN replace_link(x.val, id, tracking_domain)
               ELSE x>>
                \o generate_tracking_links(Tail(content), id, tracking_domain)

\* The index of the first c in str, 0 if there is none.
Find(str, c) ==
    IF \E i \in 1 .. Len(str) : str[i] = c
    THEN CHOOSE i \in 1 .. Len(str) : str[i] = c /\ \A j \in 1 .. i - 1 : str[j] # c
    ELSE 0

RECURSIVE Split(_, _)
\* str.split(sep)
Split(str, sep) ==
    LET i == Find(str, sep)
    IN  IF i = 0 THEN <<str>>
        ELSE <<SubSeq(str, 1, i - 1)>> \o Split(SubSeq(str, i + 1, Len(str)), sep)

\* The character of a percent escape, "" when the two digits are none of
\* the escapes Quote produces.
Unhex(h1, h2) ==
    CASE h1 = "2" /\ h2 = "6" -> "&"
      [] h1 = "2" /\ h2 = "5" -> "%"
      [] h1 = "2" /\ h2 = "B" -> "+"
      [] h1 = "3" /\ h2 = "D" -> "="
      [] OTHER -> ""

RECURSIVE unquote_plus(_)
\* The decoding of a query component by the tracking endpoint: '+' is a
\* space, %XX a character.
unquote_plus(str) ==
    IF str = <<>> THEN <<>>
    ELSE IF Head(str) = "+" THEN <<" ">> \o unquote_plus(Tail(str))
    ELSE IF Head(str) = "%" /\ Len(str) >= 3 /\ Unhex(str[2], str[3]) # ""
         THEN <<Unhex(str[2], str[3])>> \o unquote_plus(SubSeq(str, 4, Len(str)))
    ELSE <<Head(str)>> \o unquote_plus(Tail(str))

\* request.args of GET /click: the query string split at '&', each field at
\* its first '=', both sides decoded.
RequestArgs(query) ==
    LET fields == Split(query, "&")
    IN  [i \in 1 .. Len(fields) |->
            LET eq == Find(fields[i], "=")
            IN  IF eq = 0 THEN <<unquote_plus(fields[i]), <<>> >>
                ELSE <<unquote_plus(SubSeq(fields[i], 1, eq - 1)),
                       unquote_plus(SubSeq(fields[i], eq + 1, Len(fields[i])))>>]

\* request.args.get(key): the first value of the key, <<"None">> without one.
ArgsGet(query, key) ==
    LET args == RequestArgs(query)
        hits == {i \in 1 .. Len(args) : args[i][1] = <<key>>}
    IN  IF hits = {} THEN <<"None">>
        ELSE args[CHOOSE i \in hits : \A j \in hits : i <= j][2]

\* `subject, content = template.replace_placeholders(replacements)`
ReplacePlaceholders ==
    /\ stage = "start"
    /\ rendered' = replace_placeholders(template, Replacements(recipient))
    /\ stage' = "replaced"
    /\ UNCHANGED <<template, recipient>>
    /\ UNCHANGED <<storeVars, dispatchVars, endpointVars, composeVars, startupVars,
                   deviceVars>>

\* `content = self.tracker.generate_tracking_links(...)`, with a tracker, an
\* email_id and a tracking_url.
InstrumentLinks ==
    /\ stage = "replaced"
    /\ rendered' = [rendered EXCEPT
                       !.content = generate_tracking_links(@, MsgEmailId, TrackingDomain)]
    /\ stage' = "linked"
    /\ UNCHANGED <<template, recipient>>
    /\ UNCHANGED <<storeVars, dispatchVars, endpointVars, composeVars, startupVars,
                   deviceVars>>

\* generate_tracking_pixel, then for an HTML template
\* content.replace('</body>', f'{tracking_pixel}</body>'); the content goes
\* into the MIME message.
InsertBeacon ==
    /\ stage = "linked"
    /\ rendered' = [rendered EXCEPT
                       !.content = IF template.is_html
                                   THEN Replace(@, BodyTag,
                                                <<Img(TrackingDomain, MsgPixelId), BodyTag>>)
                                   ELSE @]
    /\ stage' = "handed"
    /\ UNCHANGED <<template, recipient>>
    /\ UNCHANGED <<storeVars, dispatchVars, endpointVars, composeVars, startupVars,
                   deviceVars>>

\* send_email is called with tracking on, for any template and recipient of
\* the bounded sets.
InitRender ==
    /\ template \in [subject : Subjects, content : Contents, is_html : BOOLEAN]
    /\ recipient \in [first_name : FirstNames, last_name : {<<Txt("Lee")>>},
                      email : {<<Txt("x@example.com")>>}, company : {<<Txt("Acme")>>}]
    /\ rendered = [subject |-> <<>>, content |-> <<>>]
    /\ stage = "start"
    /\ StoreOff
    /\ DispatchOff
    /\ EndpointOff
    /\ ComposeOff
    /\ StartupOff
    /\ DeviceOff

NextRender == ReplacePlaceholders \/ InstrumentLinks \/ InsertBeacon

SpecRender == InitRender /\ [][NextRender]_vars

(***************************************************************************)
(* Device class of a user agent: email_tracking.py, _detect_device_type    *)
(* A string is the sequence of its characters.                             *)
(***************************************************************************)
UpperCase == <<"A", "B", "C", "D", "E", "F", "G", "H", "I", "J", "K", "L", "M",
               "N", "O", "P", "Q", "R", "S", "T", "U", "V", "W", "X", "Y", "Z">>
LowerCase == <<"a", "b", "c", "d", "e", "f", "g", "h", "i", "j", "k", "l", "m",
               "n", "o", "p", "q", "r", "s", "t", "u", "v", "w", "x", "y", "z">>

\* str.lower() of one character.
lower_char(c) ==
    IF \E i \in 1 .. 26 : UpperCase[i] = c
    THEN LowerCase[CHOOSE i \in 1 .. 26 : UpperCase[i] = c]
    ELSE c

\* The string as written, its case untouched.
AsWritten(s) == s

\* user_agent.lower()
Lowered(s) == [i \in 1 .. Len(s) |-> lower_char(s[i])]

\* `needle in s` of two strings.
InStr(needle, s) ==
    \E i \in 0 .. (Len(s) - Len(needle)) : SubSeq(s, i + 1, i + Len(needle)) = needle

\* `not user_agent`: None (the header is absent) or the empty string.
Falsy(ua) == ~ua.present \/ ua.text = <<>>

\* EmailTracker._detect_device_type
detect_device_type(ua) ==
    IF Falsy(ua) THEN "unknown"
    ELSE LET lowered == Lowered(ua.text)
         IN  IF \/ InStr(<<"m", "o", "b", "i", "l", "e">>, lowered)
                \/ InStr(<<"a", "n", "d", "r", "o", "i", "d">>, lowered)
                \/ InStr(<<"i", "p", "h", "o", "n", "e">>, lowered)
             THEN "mobile"
             ELSE IF \/ InStr(<<"t", "a", "b", "l", "e", "t">>, lowered)
                     \/ InStr(<<"i", "p", "a", "d">>, lowered)
             THEN "tablet"
             ELSE "desktop"

\* Pieces user agents are made of: product names in the case clients write
\* them, pieces that spell a name only together, and a space.
UAWords ==
    {<<"M", "o", "b", "i", "l", "e">>, <<"A", "N", "D", "R", "O", "I", "D">>,
     <<"i", "P", "h", "o", "n", "e">>, <<"i", "P", "a", "d">>,
     <<"T", "a", "b", "l", "e", "t">>, <<"W", "i", "n", "d", "o", "w", "s">>,
     <<"c", "u", "r", "l">>, <<"t", "a", "b">>, <<"l", "e", "t">>, <<" ">>}

RECURSIVE Join(_)
Join(words) == IF words = <<>> THEN <<>> ELSE Head(words) \o Join(Tail(words))

\* request.headers.get('User-Agent'): None, or a string of at most MaxLen
\* pieces (the empty string included).
UserAgents ==
    {[present |-> FALSE, text |-> <<>>]} \cup
    {[present |-> TRUE, text |-> Join(ws)] :
        ws \in UNION {[1 .. n -> UAWords] : n \in 0 .. MaxLen}}

\* track_open / track_click / _parse_client_info derive the device class of
\* the request's user agent.
DetectDevice ==
    /\ device_type = "pending"
    /\ device_type' = detect_device_type(user_agent)
    /\ UNCHANGED user_agent
    /\ UNCHANGED <<storeVars, dispatchVars, endpointVars, composeVars, startupVars,
                   renderVars>>

InitDevice ==
    /\ user_agent \in UserAgents
    /\ device_type = "pending"
    /\ StoreOff
    /\ DispatchOff
    /\ EndpointOff
    /\ ComposeOff
    /\ StartupOff
    /\ RenderOff

NextDevice == DetectDevice

SpecDevice == InitDevice /\ [][NextDevice]_vars

(***************************************************************************)
(* Properties of the transport and of the dispatch loop                    *)
(***************************************************************************)
IsAttempt(e) == e \in AttemptEvents
Attempts(log) == SelectSeq(log, IsAttempt)
IsAttemptOrSleep(e) == e \in AttemptEvents \cup {SleepEvent}
AttemptsAndSleeps(log) == SelectSeq(log, IsAttemptOrSleep)

\* C1: with max_retries N >= 1, an attempt that succeeds is the last event
\* of the Send, which returns success with that attempt as its k-th, k <= N;
\* and as long as fewer than N attempts were made and all of them failed, the
\* Send is still going, so that a success on attempt k <= N is reached.
C1_SuccessOnAttemptK ==
    cfg.max_retries >= 1 =>
        LET A == Attempts(sendLog)
        IN  /\ \A i \in 1 .. Len(A) :
                  A[i] = "ok" => /\ i = Len(A) /\ i <= cfg.max_retries
                                 /\ pc = "returned"
                                 /\ sendLog[Len(sendLog)] = "ok"
            /\ ((\A i \in 1 .. Len(A) : A[i] # "ok") /\ Len(A) < cfg.max_retries)
                  => pc = "attempt"

\* C2: a Send whose attempts all failed raises, and it raises only after
\* exactly max_retries attempts, with one retry delay between each two
\* consecutive attempts and none after the last.
C2_FailsAfterMaxRetries ==
    LET A == Attempts(sendLog)
        P == AttemptsAndSleeps(sendLog)
    IN  /\ pc = "raised" =>
              /\ Len(A) = cfg.max_retries
              /\ \A i \in 1 .. Len(A) : A[i] # "ok"
              /\ Len(P) = 2 * cfg.max_retries - 1
              /\ \A i \in 1 .. Len(P) : (P[i] = SleepEvent) <=> (i % 2 = 0)
        /\ (/\ cfg.max_retries >= 1 /\ Len(A) = cfg.max_retries
             /\ \A i \in 1 .. Len(A) : A[i] # "ok") => pc = "raised"

RECURSIVE TemplateEvents(_, _)
\* What the claim expects of template t from recipient r on: each recipient's
\* send in list order, with the delay between batches after every
\* batch_size-th recipient that is not the last one.
TemplateEvents(t, r) ==
    IF r > cfg.recipients THEN <<>>
    ELSE <<<<"send", t, r>>>> \o
         (IF r % cfg.batch_size = 0 /\ r < cfg.recipients
          THEN <<<<"sleep_batch", t, 0>>>> ELSE <<>>) \o
         TemplateEvents(t, r + 1)

RECURSIVE CampaignEvents(_)
CampaignEvents(t) ==
    IF t > cfg.templates THEN <<>> ELSE TemplateEvents(t, 1) \o CampaignEvents(t + 1)

IsPrefix(a, b) == Len(a) <= Len(b) /\ a = SubSeq(b, 1, Len(a))
IsLoopEvent(e) == e[1] \in {"send", "sleep_batch"}
IsSend(e) == e[1] = "send"

\* C3: at every moment the sends and inter-batch delays of the run are a
\* prefix of: template 1 batch by batch, then template 2, ..., the delay
\* between batches after each batch but the last of its template; a run
\* that completes has produced exactly that sequence.
C3_TemplatesThenBatchesInOrder ==
    LET L == SelectSeq(runLog, IsLoopEvent)
    IN  /\ IsPrefix(L, CampaignEvents(1))
        /\ pc = "done" => L = CampaignEvents(1)

\* 2 templates, 3 recipients, batch size 2: batches of 2 then 1 for template 1,
\* then the same for template 2, one delay inside each template.
C3_Witness ==
    /\ pc = "done"
    /\ cfg.templates = 2 /\ cfg.recipients = 3 /\ cfg.batch_size = 2
    /\ runLog = << <<"send", 1, 1>>, <<"send", 1, 2>>, <<"sleep_batch", 1, 0>>,
                   <<"send", 1, 3>>, <<"send", 2, 1>>, <<"send", 2, 2>>,
                   <<"sleep_batch", 2, 0>>, <<"send", 2, 3>> >>

\* C4: a send that fails never ends the run (the run fails only on a
\* template that does not load), and a run that completes has attempted the
\* send of every recipient of every template, whatever failed before.
C4_FailureDoesNotAbortRun ==
    /\ pc = "failed" => runLog[Len(runLog)][1] = "template_error"
    /\ pc = "done" =>
          SelectSeq(runLog, IsSend) = SelectSeq(CampaignEvents(1), IsSend)

\* A run of 2 templates and 3 recipients completed although a Send had
\* exhausted its retries, and a later send succeeded.
C4_Witness ==
    /\ pc = "done" /\ sendFailed /\ emailDelay
    /\ cfg.templates = 2 /\ cfg.recipients = 3 /\ cfg.max_retries = 2
    /\ Len(SelectSeq(runLog, IsSend)) = 6

(***************************************************************************)
(* Properties of the tracking store                                        *)
(***************************************************************************)
EmailIds(rows) == {e.email_id : e \in rows}
EventsOf(events, email_id) == {x \in events : x.email_id = email_id}
CampaignOf(email_id) == (CHOOSE e \in emails : e.email_id = email_id).campaign_id

\* C5: a RecordOpen that inserts an OpenEvent for a message raises the
\* unique-opens count of the message's campaign by 1 if the message had no
\* open before and by 0 if it had one, and raises total opens by 1.
C5_UniqueOpensPerMessage ==
    [][\A o \in opens' \ opens :
          o.email_id \in EmailIds(emails) =>
             LET c == CampaignOf(o.email_id)
                 first == EventsOf(opens, o.email_id) = {}
             IN  /\ get_campaign_stats(c)'.unique_opens =
                       get_campaign_stats(c).unique_opens + (IF first THEN 1 ELSE 0)
                 /\ get_campaign_stats(c)'.total_opens =
                       get_campaign_stats(c).total_opens + 1]_vars

\* C6: no rate of CampaignStats is a division fault; with 0 sent messages all
\* four rates are 0, and click-to-open is 0 whenever unique opens is 0.
C6_RatesZeroOnZeroDenominator ==
    \A c \in Campaigns :
        LET s == get_campaign_stats(c)
        IN  /\ ~IsFault(s.bounce_rate) /\ ~IsFault(s.open_rate)
            /\ ~IsFault(s.click_rate) /\ ~IsFault(s.click_to_open_rate)
            /\ s.total_sent = 0 =>
                   /\ IsZero(s.bounce_rate) /\ IsZero(s.open_rate)
                   /\ IsZero(s.click_rate) /\ IsZero(s.click_to_open_rate)
            /\ s.unique_opens = 0 => IsZero(s.click_to_open_rate)

\* A campaign without messages is asked for its statistics while the store
\* holds messages of another campaign and events that match no message.
C6_Witness ==
    /\ \E c \in Campaigns : get_campaign_stats(c).total_sent = 0
    /\ \E c \in Campaigns : get_campaign_stats(c).total_sent > 0
    /\ clicks # {} /\ bounces # {}

\* C7: RecordBounce for a message with status `sent` leaves total_sent of its
\* campaign unchanged with the message counted once, makes the message
\* `bounced`, and adds exactly one to the bounce count and to the breakdown
\* entry of the bounce type, the message contributing exactly one bounce row.
C7_BounceCountedOnce ==
    [][\A b \in bounces' \ bounces : \A m \in emails :
          (m.email_id = b.email_id /\ m.status = "sent") =>
             LET c == m.campaign_id
                 before == get_campaign_stats(c)
                 after == get_campaign_stats(c)'
                 was == IF b.bounce_type \in DOMAIN before.bounce_details
                        THEN before.bounce_details[b.bounce_type] ELSE 0
             IN  /\ after.total_sent = before.total_sent
                 /\ Cardinality({e \in emails' : e.email_id = m.email_id}) = 1
                 /\ \A e \in emails' : e.email_id = m.email_id => e.status = "bounced"
                 /\ after.bounces = before.bounces + 1
                 /\ b.bounce_type \in DOMAIN after.bounce_details
                 /\ after.bounce_details[b.bounce_type] = was + 1
                 /\ Cardinality(EventsOf(bounces', m.email_id)) = 1]_vars

\* A bounce has been recorded for a stored message, which has exactly this
\* one bounce.
C7_Witness ==
    /\ \E m \in emails : m.status = "bounced"
                          /\ Cardinality(EventsOf(bounces, m.email_id)) = 1

\* C8: every OpenEvent, ClickEvent and BounceEvent references a stored
\* SentMessage.
C8_NoOrphanEvents ==
    \A x \in opens \cup clicks \cup bounces : x.email_id \in EmailIds(emails)

\* C9: a step that removes a SentMessage row or an event row is the
\* age-based purge.
C9_OnlyPurgeDeletes ==
    [][(\/ ~(EmailIds(emails) \subseteq EmailIds(emails'))
        \/ ~(opens \subseteq opens')
        \/ ~(clicks \subseteq clicks')
        \/ ~(bounces \subseteq bounces'))
       => \E days \in 0 .. MaxDays : cleanup_old_data(days)]_vars

\* C10: no two stored messages carry the same beacon token, and a token that
\* becomes bound to a message is a value no uuid4() call returned before, so
\* it was never the token of any message.
C10_TokenUniqueNeverReused ==
    /\ [](\A e1, e2 \in emails :
            (e1.tracking_pixel_id # NULL /\ e1.tracking_pixel_id = e2.tracking_pixel_id)
               => e1.email_id = e2.email_id)
    /\ [][\A e \in emails' :
            (/\ e.tracking_pixel_id # NULL
             /\ \A o \in emails : ~(o.email_id = e.email_id /\
                                     o.tracking_pixel_id = e.tracking_pixel_id)) =>
               e.tracking_pixel_id > uuidCount]_vars

\* Two stored messages both carry a token.
C10_Witness ==
    \E e1, e2 \in emails :
        /\ e1.email_id # e2.email_id
        /\ e1.tracking_pixel_id # NULL /\ e2.tracking_pixel_id # NULL


(***************************************************************************)
(* Properties of the tracking endpoint                                     *)
(***************************************************************************)
\* C11: the address column of every OpenEvent and ClickEvent row is empty or
\* the SHA-256 digest of an address, never a raw address, and the row a
\* request inserts carries the digest of that request's address (empty when
\* the request has none).
C11_OnlyHashedAddressStored ==
    /\ [](\A x \in opens \cup clicks :
             /\ x.ip_address \in {"NULL"} \cup {Sha256Hex[a] : a \in DOMAIN Sha256Hex}
             /\ x.ip_address \notin RemoteAddrs)
    /\ [][\A x \in (opens' \ opens) \cup (clicks' \ clicks) :
             x.ip_address = IF request'.remote_addr = "" THEN "NULL"
                            ELSE Sha256Hex[request'.remote_addr]]_vars

\* An open and a click are stored, one with a digest and one without address.
C11_Witness ==
    /\ \E o \in opens : o.ip_address = Sha256Hex["203.0.113.7"]
    /\ \E c \in clicks : c.ip_address = "NULL"

\* C12: the tracker's call for a pixel request never ends in an exception,
\* and a pixel request whose token matches no message leaves the four tables
\* unchanged.
C12_RecordOpenNeverRaises ==
    /\ [](request.route = "pixel" => trackerResult # "RuntimeError")
    /\ [][(request'.route = "pixel" /\ request' # request
            /\ PixelOwners(request'.id) = {})
          => UNCHANGED <<emails, opens, clicks, bounces>>]_vars

\* C13: every pixel request is answered with the image and every click
\* request with a redirect to the url it asked for, however the tracker's
\* call ended and also when it was not made.
C13_EndpointAlwaysAnswers ==
    /\ request.route = "pixel" => response = send_file
    /\ request.route = "click" => response = redirect(request.url)

\* A click request is answered although the store failed.
C13_Witness ==
    /\ request.route = "click" /\ request.url # "None"
    /\ trackerResult = "RuntimeError"
    /\ response.kind = "redirect"


(***************************************************************************)
(* Properties of send_email and of the run's failures                      *)
(***************************************************************************)
\* C14: with a tracker, a message is handed to the transport only if its
\* send was registered and its content instrumented: links rewritten and,
\* for an HTML template, the beacon added.
C14_OnlyInstrumentedHandedOver ==
    (handed /\ sendCtx.tracker) =>
        /\ msg.email_id \in EmailIds(emails)
        /\ msg.links
        /\ sendCtx.is_html => msg.beacon

\* C15: when send_email failed (composition or Send), the store holds no
\* SentMessage row with status `sent` for that attempt.
C15_NoRowForFailedSend ==
    pc = "raised" =>
        \A e \in emails : ~(e.email_id = msg.email_id /\ e.status = "sent")

\* C16: when a template of the run fails to load, whichever it is, no
\* message of the run has been transmitted.
C16_TemplateFailureBeforeAnySend ==
    pc = "failed" => ~anySent

\* C17: once a send of a template has failed on an oversized attachment, no
\* further recipient of that template is attempted: the template with the
\* oversized attachment has at most one send.
C17_OversizedStopsTemplate ==
    tplOversized =>
        Cardinality({i \in 1 .. Len(runLog) :
                        runLog[i][1] = "send" /\ runLog[i][2] = tIdx}) <= 1


(***************************************************************************)
(* Properties of the identity routing                                      *)
(***************************************************************************)
VerificationFailed == senderTor = "failed" \/ handler.state = "failed"

\* C18: when the identity verification of the start-up failed: with the
\* force flag the start-up fails; without it the start-up goes through with
\* the rotator disabled (use_tor and the handler's enabled flag off) and the
\* socket back to direct routing.
C18_VerificationFailureDisablesOrFails ==
    VerificationFailed =>
        IF cfg.force_tor
        THEN pc = "startup_failed"
        ELSE /\ pc = "started"
             /\ ~use_tor /\ ~handler.enabled
             /\ socket_socket = "socket"

\* C19: the routing is taken as established only if a probe of that
\* verification answered IsTor, whatever retry_attempts is.
C19_VerifiedOnlyAfterConfirmingProbe ==
    /\ senderTor = "established" =>
           \E i \in 1 .. Len(probes) : probes[i] = <<"sender", "tor">>
    /\ handler.state = "established" =>
           \E i \in 1 .. Len(probes) : probes[i] = <<"handler", "tor">>

\* Defaults of the configuration, in seconds.
circuit_refresh_interval == 600
circuit_build_timeout == 10
retry_delay == 5

\* The least time an event of sendLog takes.
Duration(e) ==
    IF e = "sleep_circuit_build" THEN circuit_build_timeout
    ELSE IF e = SleepEvent THEN retry_delay
    ELSE 0

RECURSIVE Elapsed(_, _, _)
\* The least time between the events i and j of log.
Elapsed(log, i, j) ==
    IF i >= j THEN 0 ELSE Duration(log[i]) + Elapsed(log, i + 1, j)

\* C20: two NEWNYM signals of a Send are never less than the refresh
\* interval apart: a refresh requested sooner is a no-op.
C20_RefreshRateLimited ==
    \A i, j \in 1 .. Len(sendLog) :
        (i < j /\ sendLog[i] = "newnym" /\ sendLog[j] = "newnym") =>
            Elapsed(sendLog, i, j) >= circuit_refresh_interval

\* C21: in both transports, once an attempt of the send has failed with a
\* dropped connection (the last attempt included), the identity routing is
\* off: use_tor is false from the end of that attempt on.
C21_DroppedDisablesRouting ==
    (\E i \in 1 .. Len(sendLog) : sendLog[i] = "dropped") => ~use_tor

\* The identity refresh of the attempt that logged sendLog[i] failed.
RefreshFailedAt(log, i) == log[i] \in {"refresh_failed", "refresh_raised"}
\* The message was transmitted right after the event i of log.
TransmittedAfter(log, i) == i < Len(log) /\ log[i + 1] \in Outcomes

\* C22: in both transports, after a failed identity refresh the message of
\* that attempt is transmitted exactly when the force flag is not set.
C22_RefreshFailureBlocksOnlyWhenForced ==
    \A i \in 1 .. Len(sendLog) :
        RefreshFailedAt(sendLog, i) =>
            (TransmittedAfter(sendLog, i) <=> ~cfg.force_tor)

\* A refresh of the send in progress failed with the force flag set.
ForcedRefreshFailed(log) ==
    cfg.force_tor /\ \E i \in 1 .. Len(log) : RefreshFailedAt(log, i)

\* C23: with the force flag set, a failed identity refresh ends the run: the
\* send raises at that attempt (no retry, no transmission), and the step
\* after it leaves the loops with an error instead of going on to another
\* recipient or template.
C23_ForcedRefreshFailureIsFatal ==
    /\ [](ForcedRefreshFailed(sendLog) => pc = "raised")
    /\ [][ForcedRefreshFailed(sendLog) => pc' = "failed"]_vars

\* C24: when a call of the transport has ended, by returning or by raising,
\* the loop waits the delay between emails before it goes on.
C24_DelayAfterEverySend ==
    [][(pc \in {"returned", "raised"} /\ pc' \notin {"returned", "raised"})
          => emailDelay']_vars

\* The rows of `events` that reference a message of `messages`.
Owned(events, messages) == {x \in events : x.email_id \in EmailIds(messages)}

\* C25: a purge removes exactly the messages sent before the cutoff and
\* every open, click and bounce they own; the messages sent at or after the
\* cutoff and their events stay as they are, no other row goes, and a store
\* without orphan events has none afterwards.
C25_PurgeRemovesExactlyOld ==
    [][\A days \in 0 .. MaxDays :
          cleanup_old_data(days) =>
             LET gone == {e \in emails : e.sent_time < now - days}
                 kept == {e \in emails : e.sent_time >= now - days}
             IN  /\ emails' = kept
                 /\ opens \ opens' = Owned(opens, gone)
                 /\ clicks \ clicks' = Owned(clicks, gone)
                 /\ bounces \ bounces' = Owned(bounces, gone)
                 /\ opens' \subseteq opens /\ clicks' \subseteq clicks
                 /\ bounces' \subseteq bounces
                 /\ Owned(opens', kept) = Owned(opens, kept)
                 /\ Owned(clicks', kept) = Owned(clicks, kept)
                 /\ Owned(bounces', kept) = Owned(bounces, kept)
                 /\ C8_NoOrphanEvents => C8_NoOrphanEvents']_vars

\* A purge has removed a message, and the store holds a message with an
\* event of its own.
C25_Witness ==
    /\ purged > 0
    /\ \E m \in emails : EventsOf(opens \cup clicks \cup bounces, m.email_id) # {}

\* The bounce row of the message recorded last.
LatestBounce(email_id) ==
    CHOOSE b \in EventsOf(bounces, email_id) :
        \A o \in EventsOf(bounces, email_id) : o.bounce_id <= b.bounce_id

\* C26: in every state of the store a message has status `bounced` exactly
\* when a bounce row references it, and its bounce_info is then the reason
\* of the latest of these rows; a track_bounce that raised has left neither
\* the row nor the status behind.
C26_BouncedIffBounceEvent ==
    \A m \in emails :
        LET ev == EventsOf(bounces, m.email_id)
        IN  /\ m.status = "bounced" <=> ev # {}
            /\ ev # {} => m.bounce_info = LatestBounce(m.email_id).bounce_reason

\* A message has bounced twice, for two reasons.
C26_Witness ==
    \E m \in emails :
        /\ m.status = "bounced"
        /\ \E b1, b2 \in EventsOf(bounces, m.email_id) :
              b1.bounce_reason # b2.bounce_reason


(***************************************************************************)
(* Properties of the text of a message                                     *)
(***************************************************************************)
Count(text, x) == Cardinality({i \in 1 .. Len(text) : text[i] = x})

\* C27: in the content handed over with tracking on, an HTML template has
\* exactly one beacon, directly in front of the closing body tag, and a
\* plain-text template has none.
C27_OneBeaconBeforeBodyTag ==
    stage = "handed" =>
        LET c == rendered.content
            at == {i \in 1 .. Len(c) : c[i].kind = "img"}
        IN  IF template.is_html
            THEN /\ Cardinality(at) = 1
                 /\ \A i \in at : i < Len(c) /\ c[i + 1] = BodyTag
            ELSE at = {}

\* The fields of a recipient record beyond email, first_name, last_name, with
\* the placeholder key of each.
ExtraFields == {<<"Company", "company">>}

\* C28: a {{.Field}} placeholder that names an additional field of the
\* recipient record is replaced by the recipient's value, in the subject and
\* in the body.
C28_ExtraFieldsSubstituted ==
    stage = "replaced" =>
        \A f \in ExtraFields :
            LET ph == Ph(f[1])
                value == recipient[f[2]][1]
            IN  /\ Count(rendered.subject, ph) = 0
                /\ Count(rendered.content, ph) = 0
                /\ Count(rendered.subject, value) = Count(template.subject, ph)
                /\ Count(rendered.content, value) = Count(template.content, ph)

\* The value of `key` in replacements, <<>> if the key is unknown.
Lookup(replacements, key) ==
    LET hits == {i \in 1 .. Len(replacements) : replacements[i][1] = key}
    IN  IF hits = {} THEN <<>> ELSE <<replacements[CHOOSE i \in hits : TRUE][2]>>

RECURSIVE Substitute(_, _)
\* Every placeholder of a known key replaced by that key's value, everything
\* else left as it is.
Substitute(text, replacements) ==
    IF text = <<>> THEN <<>>
    ELSE LET x == Head(text)
             v == IF x.kind = "ph" THEN Lookup(replacements, x.val[1]) ELSE <<>>
         IN  (IF v # <<>> THEN v[1] ELSE <<x>>) \o Substitute(Tail(text), replacements)

Reverse(seq) == [i \in 1 .. Len(seq) |-> seq[Len(seq) + 1 - i]]

\* C29: replace_placeholders puts, for each occurrence of {{.Key}} with a
\* known key in subject and content, exactly the key's value, leaves the
\* rest as it is, and gives the same result when the keys are processed in
\* the opposite order.
C29_ReplaceIsSimultaneous ==
    stage = "replaced" =>
        LET replacements == Replacements(recipient)
        IN  /\ rendered.subject = Substitute(template.subject, replacements)
            /\ rendered.content = Substitute(template.content, replacements)
            /\ replace_placeholders(template, Reverse(replacements)) = rendered

\* An attribute href="..." that the pattern of generate_tracking_links
\* matches.
IsLink(x) == x.kind = "href" /\ x.val # <<>>
Links(text) == SelectSeq(text, IsLink)
IsTrackingUrl(url) ==
    Len(url) > 3 /\ SubSeq(url, 1, 3) = <<"https://", TrackingDomain, "/click?">>
Query(url) == SubSeq(url, 4, Len(url))

\* C30: generate_tracking_links returns a content without href="..." as it
\* is; with N such attributes it changes nothing else and the result has N
\* tracking URLs, the i-th carrying the message identifier and decoding, at
\* the click endpoint, to the i-th original URL.
C30_LinksRoundTrip ==
    [][(stage = "replaced" /\ stage' = "linked") =>
          LET in == rendered.content
              out == rendered'.content
              N == Len(Links(in))
          IN  /\ N = 0 => out = in
              /\ Len(out) = Len(in)
              /\ \A i \in 1 .. Len(in) : ~IsLink(in[i]) => out[i] = in[i]
              /\ Len(Links(out)) = N
              /\ \A i \in 1 .. N :
                    LET url == Links(out)[i].val
                    IN  /\ IsTrackingUrl(url)
                        /\ ArgsGet(Query(url), "eid") = MsgEmailId
                        /\ ArgsGet(Query(url), "url") = Links(in)[i].val]_vars

\* The links of a content with two different URLs, one of them with a query
\* separator of its own, have been rewritten.
C30_Witness ==
    /\ stage = "linked"
    /\ Len(Links(rendered.content)) = 2
    /\ \E i, j \in 1 .. Len(template.content) :
          /\ IsLink(template.content[i]) /\ IsLink(template.content[j])
          /\ template.content[i].val # template.content[j].val
          /\ \E k \in 1 .. Len(template.content[i].val) :
                template.content[i].val[k] = "&"


(***************************************************************************)
(* Further properties of the store, the transport and the run              *)
(***************************************************************************)
\* C31: create_tracking_pixel for a registered message binds a new token to
\* that message and to no other, and a track_open with the token of a
\* message inserts exactly one opens row, owned by that message.
C31_TokenBoundThenOpenRecorded ==
    [][/\ \A id \in EmailIds(emails) :
             create_tracking_pixel(id) =>
                /\ \E e \in emails' : e.email_id = id /\ e.tracking_pixel_id = uuidCount'
                /\ \A o \in emails' : o.tracking_pixel_id = uuidCount' => o.email_id = id
       /\ \A m \in emails : \A addr \in Addrs :
             (m.tracking_pixel_id # NULL /\ track_open(m.tracking_pixel_id, addr)) =>
                /\ Cardinality(opens' \ opens) = 1
                /\ \A o \in opens' \ opens : o.email_id = m.email_id]_vars

\* Of two stored messages the one that carries a token has been opened
\* once, the other never.
C31_Witness ==
    \E m1, m2 \in emails :
        /\ m1.email_id # m2.email_id
        /\ m1.tracking_pixel_id # NULL
        /\ Cardinality(EventsOf(opens, m1.email_id)) = 1
        /\ EventsOf(opens, m2.email_id) = {}

\* C35: whatever the interleaving of the dispatch loop's writes with the
\* endpoint's start-up and requests, no step removes a committed message,
\* open or click.
C35_NoCommittedRowLost ==
    [][/\ EmailIds(emails) \subseteq EmailIds(emails')
       /\ opens \subseteq opens'
       /\ clicks \subseteq clicks']_vars

\* C36: a Send that returned without error made an attempt that the
\* transport accepted, whatever max_retries is.
C36_ReturnImpliesAccepted ==
    pc = "returned" => \E i \in 1 .. Len(sendLog) : sendLog[i] = "ok"

\* C38: the bounce count of a campaign never exceeds its total_sent.
C38_BouncesAtMostSent ==
    \A c \in Campaigns :
        get_campaign_stats(c).bounces <= get_campaign_stats(c).total_sent

\* C39: unique_clicks of a campaign is the number of its messages that have
\* at least one click.
C39_UniqueClicksCountsClicked ==
    \A c \in Campaigns :
        get_campaign_stats(c).unique_clicks =
            Cardinality({m \in emails : /\ m.campaign_id = c
                                        /\ EventsOf(clicks, m.email_id) # {}})

\* The step changes no message of campaign c and adds or removes no event
\* of a message of campaign c.
CampaignUntouched(c) ==
    LET mine == {e \in emails : e.campaign_id = c}
        changed(before, after) == (before \ after) \cup (after \ before)
    IN  /\ {e \in emails' : e.campaign_id = c} = mine
        /\ \A x \in changed(opens, opens') \cup changed(clicks, clicks')
                       \cup changed(bounces, bounces') :
              x.email_id \notin EmailIds(mine)

\* C40: a step that touches only messages and events of other campaigns
\* leaves the statistics of a campaign as they were.
C40_CampaignIsolation ==
    [][\A c \in Campaigns :
          CampaignUntouched(c) => get_campaign_stats(c)' = get_campaign_stats(c)]_vars

\* Both campaigns have a message, and the one of campaign B has an event.
C40_Witness ==
    \E a, b \in emails :
        /\ a.campaign_id = "A" /\ b.campaign_id = "B"
        /\ EventsOf(opens \cup clicks \cup bounces, b.email_id) # {}

SendsOf(t) == {i \in 1 .. Len(runLog) : runLog[i][1] = "send" /\ runLog[i][2] = t}

\* C32: in a run in test mode, at most one send is attempted for every
\* template and its recipient is the first entry of the loaded list; no
\* other recipient is handed to the transport.
C32_TestModeFirstRecipientOnly ==
    cfg.test_mode =>
        \A t \in 1 .. MaxTemplates :
            /\ Cardinality(SendsOf(t)) <= 1
            /\ \A i \in SendsOf(t) : runLog[i][3] = 1

C32_Witness ==
    /\ cfg.test_mode /\ cfg.listed = MaxRecipients /\ cfg.templates = MaxTemplates
    /\ pc = "done"
    /\ \A t \in 1 .. MaxTemplates : Cardinality(SendsOf(t)) = 1

\* Every (template, recipient) pair of the run has exactly one send.
MatrixCompleted ==
    \A t \in 1 .. cfg.templates : \A r \in 1 .. cfg.recipients :
        Cardinality({i \in SendsOf(t) : runLog[i][3] = r}) = 1

\* C33: every run of send_campaign terminates, with a fatal error or with
\* the whole matrix completed: one send attempted for every (template,
\* recipient) pair, whatever the batch size.
C33_RunTerminatesWithMatrix ==
    /\ <>(pc \in {"done", "failed"})
    /\ [](pc = "done" => MatrixCompleted)

\* Two characters that are the same letter, whatever their case.
SameLetter(c, d) ==
    c = d \/ \E i \in 1 .. 26 : {c, d} = {UpperCase[i], LowerCase[i]}

\* The word occurs in the text, in any mix of upper and lower case.
Mentions(word, text) ==
    \E i \in 0 .. (Len(text) - Len(word)) :
        \A k \in 1 .. Len(word) : SameLetter(text[i + k], word[k])

MobileVocabulary ==
    {<<"m", "o", "b", "i", "l", "e">>, <<"a", "n", "d", "r", "o", "i", "d">>,
     <<"i", "p", "h", "o", "n", "e">>}
TabletVocabulary == {<<"i", "p", "a", "d">>, <<"t", "a", "b", "l", "e", "t">>}

MentionsMobile == \E w \in MobileVocabulary : Mentions(w, user_agent.text)
MentionsTablet == \E w \in TabletVocabulary : Mentions(w, user_agent.text)
Derived == device_type \notin {"off", "pending"}

\* C34 as stated: the device class is one of mobile, tablet, desktop and
\* unknown; a user agent that mentions a mobile word (in any case) is mobile,
\* one that mentions a tablet word and no mobile word is tablet, and one that
\* mentions neither, the empty and the absent one included, is unknown.
C34_DeviceClassOrUnknown ==
    Derived =>
        /\ device_type \in {"mobile", "tablet", "desktop", "unknown"}
        /\ MentionsMobile => device_type = "mobile"
        /\ (~MentionsMobile /\ MentionsTablet) => device_type = "tablet"
        /\ (~MentionsMobile /\ ~MentionsTablet) => device_type = "unknown"

\* C34 as amended: the same, but a user agent that mentions neither a mobile
\* nor a tablet word is desktop when it is a non-empty string, and unknown
\* only when it is empty or absent.
C34_DeviceClassElseDesktop ==
    Derived =>
        /\ device_type \in {"mobile", "tablet", "desktop", "unknown"}
        /\ MentionsMobile => device_type = "mobile"
        /\ (~MentionsMobile /\ MentionsTablet) => device_type = "tablet"
        /\ (~MentionsMobile /\ ~MentionsTablet) =>
              device_type = IF user_agent.present /\ user_agent.text # <<>>
                            THEN "desktop" ELSE "unknown"

\* A user agent in mixed case that mentions a tablet word before a mobile
\* word, classified.
C34_Witness ==
    /\ Derived
    /\ user_agent.text = <<"i", "P", "a", "d", "M", "o", "b", "i", "l", "e">>
    /\ device_type = "mobile"

====
